---- MODULE Spec2Model ----
(***************************************************************************)
(* gisproxy (package lib): the request-forwarding engine of GisProxy.      *)
(* One inbound request is followed through serveHTTP: prefix match and     *)
(* base64 decode (ComputeForwardUrl), classification (extractInfo), the    *)
(* pre-send hook, the outbound send, the post-receive hook, the redirect   *)
(* check and the relay to the caller (writeResponse, writeError,           *)
(* writeResponseHeader).                                                   *)
(*                                                                         *)
(* Go strings are TLA+ strings, read as sequences of one-character         *)
(* strings (Len, SubSeq and \o apply to them).  Positions are 1-based and  *)
(* "not found" is 0, where Go is 0-based with -1.                          *)
(***************************************************************************)
EXTENDS Integers, Sequences, FiniteSets, TLC

(***************************************************************************)
(* Bounds of the model.                                                    *)
(***************************************************************************)
\* A failing body read or body copy stops after 0..MaxFailAt bytes.
MaxFailAt == 1

\* The longest timeout given to Stop, and the last tick of the clock.
MaxTimeout == 1
MaxClock == 2

(***************************************************************************)
(* package strings                                                         *)
(***************************************************************************)
At(s, i) == SubSeq(s, i, i)

Min(a, b) == IF a < b THEN a ELSE b

HasAt(s, sub, i) ==
    /\ i >= 1
    /\ i + Len(sub) - 1 <= Len(s)
    /\ SubSeq(s, i, i + Len(sub) - 1) = sub

\* strings.Index from position `from` on: the first position of sub, 0 if none.
RECURSIVE IndexFrom(_, _, _)
IndexFrom(s, sub, from) ==
    IF from + Len(sub) - 1 > Len(s) THEN 0
    ELSE IF HasAt(s, sub, from) THEN from
    ELSE IndexFrom(s, sub, from + 1)

Index(s, sub) == IndexFrom(s, sub, 1)

\* The last position of sub at or before position from, 0 if none.
RECURSIVE LastIndexFrom(_, _, _)
LastIndexFrom(s, sub, from) ==
    IF from < 1 THEN 0
    ELSE IF HasAt(s, sub, from) THEN from
    ELSE LastIndexFrom(s, sub, from - 1)

\* strings.LastIndex.
LastIndex(s, sub) == LastIndexFrom(s, sub, Len(s))

Contains(s, sub) == Index(s, sub) # 0

HasPrefix(s, p) == HasAt(s, p, 1)

HasSuffix(s, p) == Len(p) <= Len(s) /\ HasAt(s, p, Len(s) - Len(p) + 1)

Count(s, sub) == Cardinality({i \in 1..Len(s) : HasAt(s, sub, i)})

\* s[from:] in Go, with 1-based from.
Drop(s, from) == SubSeq(s, from, Len(s))

RECURSIVE ReplaceAll(_, _, _)
ReplaceAll(s, old, new) ==
    LET i == Index(s, old)
    IN  IF i = 0 THEN s
        ELSE SubSeq(s, 1, i - 1) \o new \o ReplaceAll(Drop(s, i + Len(old)), old, new)

\* strings.Split(s, sep)[0].
SplitFirst(s, sep) ==
    LET i == Index(s, sep)
    IN  IF i = 0 THEN s ELSE SubSeq(s, 1, i - 1)

\* The part after the first sep, "" when sep does not occur (strings.Cut).
CutAfter(s, sep) ==
    LET i == Index(s, sep)
    IN  IF i = 0 THEN "" ELSE Drop(s, i + Len(sep))

\* strings.Split(s, sep) for a one-character sep.
RECURSIVE Split(_, _)
Split(s, sep) ==
    LET i == Index(s, sep)
    IN  IF i = 0 THEN <<s>>
        ELSE <<SubSeq(s, 1, i - 1)>> \o Split(Drop(s, i + Len(sep)), sep)

RECURSIVE Join(_, _)
Join(values, sep) ==
    IF Len(values) = 0 THEN ""
    ELSE IF Len(values) = 1 THEN values[1]
    ELSE values[1] \o sep \o Join(Tail(values), sep)

LowerLetters == "abcdefghijklmnopqrstuvwxyz"
UpperLetters == "ABCDEFGHIJKLMNOPQRSTUVWXYZ"
Digits == "0123456789"

\* The characters of a string.
Chars(s) == {At(s, i) : i \in 1..Len(s)}

LowerSet == Chars(LowerLetters)
UpperSet == Chars(UpperLetters)
DigitSet == Chars(Digits)

IsLetter(c) == c \in LowerSet \/ c \in UpperSet

LowerOf == [c \in UpperSet |-> At(LowerLetters, Index(UpperLetters, c))]
UpperOf == [c \in LowerSet |-> At(UpperLetters, Index(LowerLetters, c))]

LowerChar(c) == IF c \in UpperSet THEN LowerOf[c] ELSE c

UpperChar(c) == IF c \in LowerSet THEN UpperOf[c] ELSE c

RECURSIVE ToLower(_)
ToLower(s) == IF s = "" THEN "" ELSE LowerChar(At(s, 1)) \o ToLower(Drop(s, 2))

RECURSIVE ToUpper(_)
ToUpper(s) == IF s = "" THEN "" ELSE UpperChar(At(s, 1)) \o ToUpper(Drop(s, 2))

\* strconv.Itoa for naturals.
RECURSIVE Itoa(_)
Itoa(n) ==
    IF n < 10 THEN At(Digits, n + 1)
    ELSE Itoa(n \div 10) \o At(Digits, (n % 10) + 1)

(***************************************************************************)
(* encoding/base64, StdEncoding                                            *)
(***************************************************************************)
B64Alphabet == "ABCDEFGHIJKLMNOPQRSTUVWXYZabcdefghijklmnopqrstuvwxyz0123456789+/"

\* Printable ASCII: bytes 32..95 and 97..126.  Byte 96 (the backquote) cannot be
\* written in a TLA+ string and is outside the alphabet of this model.
AsciiLo == " !\"#$%&'()*+,-./0123456789:;<=>?@ABCDEFGHIJKLMNOPQRSTUVWXYZ[\\]^_"
AsciiHi == "abcdefghijklmnopqrstuvwxyz{|}~"

\* string(bytes): byte 10 is "\n"; the inputs of this model decode to no other
\* byte outside the printable range, and "\t" stands for any such byte.
CharOf(b) ==
    IF b >= 32 /\ b <= 95 THEN At(AsciiLo, b - 31)
    ELSE IF b >= 97 /\ b <= 126 THEN At(AsciiHi, b - 96)
    ELSE IF b = 10 THEN "\n" ELSE "\t"

ByteOf(c) ==
    IF c = "\n" THEN 10
    ELSE IF c = "\t" THEN 9
    ELSE IF Index(AsciiLo, c) # 0 THEN Index(AsciiLo, c) + 31
    ELSE Index(AsciiHi, c) + 96

\* A byte below 0x20 or 0x7f (net/url stringContainsCTLByte).
IsCTL(c) == c = "\n" \/ c = "\t"

B64Set == Chars(B64Alphabet)

B64Index == [c \in B64Set |-> Index(B64Alphabet, c) - 1]

IsB64(c) == c \in B64Set

\* The six bits of a character of the alphabet.
B64Val(c) == B64Index[c]

\* The bytes of one quantum of n (2..4) alphabet characters, as a string.
Quantum(q) ==
    LET n  == Len(q)
        v1 == B64Val(At(q, 1))
        v2 == B64Val(At(q, 2))
        v3 == IF n >= 3 THEN B64Val(At(q, 3)) ELSE 0
        v4 == IF n >= 4 THEN B64Val(At(q, 4)) ELSE 0
        b1 == v1 * 4 + (v2 \div 16)
        b2 == (v2 % 16) * 16 + (v3 \div 4)
        b3 == (v3 % 4) * 64 + v4
    IN  CharOf(b1) \o (IF n >= 3 THEN CharOf(b2) ELSE "")
                   \o (IF n >= 4 THEN CharOf(b3) ELSE "")

\* The first character of q outside the alphabet, 0 when there is none.
RECURSIVE FirstBadFrom(_, _)
FirstBadFrom(q, i) ==
    IF i > Len(q) THEN 0
    ELSE IF ~IsB64(At(q, i)) THEN i
    ELSE FirstBadFrom(q, i + 1)

FirstBad(q) == FirstBadFrom(q, 1)

\* CorruptInputError's offset for the input s that starts at offset off, -1
\* when s decodes.  Padding is required, and only the last quantum may hold it.
RECURSIVE CorruptAt(_, _)
CorruptAt(s, off) ==
    IF s = "" THEN -1
    ELSE
    LET fb == FirstBad(SubSeq(s, 1, Min(4, Len(s))))
    IN  IF fb = 0 /\ Len(s) < 4 THEN off
        ELSE IF fb = 0 THEN CorruptAt(Drop(s, 5), off + 4)
        ELSE IF At(s, fb) # "=" \/ fb <= 2 THEN off + fb - 1
        ELSE IF fb = 3 /\ (Len(s) < 4 \/ At(s, 4) # "=") THEN off + 3
        ELSE IF Len(s) > 4 THEN off + 4
        ELSE -1

\* The bytes of an input that decodes.
RECURSIVE Decoded(_)
Decoded(s) ==
    IF s = "" THEN ""
    ELSE LET fb == FirstBad(SubSeq(s, 1, 4))
         IN  IF fb = 0 THEN Quantum(SubSeq(s, 1, 4)) \o Decoded(Drop(s, 5))
             ELSE Quantum(SubSeq(s, 1, fb - 1))

\* base64.StdEncoding.DecodeString: [err, out, off], off being the offset the
\* error names.
DecodeString(s) ==
    LET off == CorruptAt(s, 0)
    IN  IF off = -1 THEN [err |-> FALSE, out |-> Decoded(s), off |-> 0]
        ELSE [err |-> TRUE, out |-> "", off |-> off]

\* The encoding side, as the clients of the proxy build the segment:
\* base64.StdEncoding.EncodeToString, then '+', '/' and '=' escaped.
RECURSIVE EncodeToString(_)
EncodeToString(s) ==
    IF s = "" THEN ""
    ELSE
    LET n  == Min(3, Len(s))
        b1 == ByteOf(At(s, 1))
        b2 == IF n >= 2 THEN ByteOf(At(s, 2)) ELSE 0
        b3 == IF n >= 3 THEN ByteOf(At(s, 3)) ELSE 0
        c1 == At(B64Alphabet, (b1 \div 4) + 1)
        c2 == At(B64Alphabet, ((b1 % 4) * 16 + (b2 \div 16)) + 1)
        c3 == IF n >= 2 THEN At(B64Alphabet, ((b2 % 16) * 4 + (b3 \div 64)) + 1) ELSE "="
        c4 == IF n >= 3 THEN At(B64Alphabet, (b3 % 64) + 1) ELSE "="
    IN  c1 \o c2 \o c3 \o c4 \o EncodeToString(Drop(s, 4))

EncodeSegment(u) ==
    ReplaceAll(ReplaceAll(ReplaceAll(EncodeToString(u), "+", "%2B"), "/", "%2F"), "=", "%3D")

(***************************************************************************)
(* net/url.  The decoded URLs of this model carry no userinfo, no '%'      *)
(* escape, no fragment and no dot segment, so those parts of net/url are   *)
(* not modelled.                                                           *)
(***************************************************************************)
NoURL ==
    [err |-> TRUE, Scheme |-> "", Opaque |-> "", Host |-> "", Path |-> "",
     RawQuery |-> "", ForceQuery |-> FALSE]

IsSchemeChar(c) == IsLetter(c) \/ c \in DigitSet \/ c \in {"+", "-", "."}

\* url.getScheme: [err, scheme, rest].
RECURSIVE SchemeEnd(_, _)
SchemeEnd(raw, i) ==
    IF i > Len(raw) THEN 0
    ELSE IF ~IsSchemeChar(At(raw, i)) THEN i
    ELSE SchemeEnd(raw, i + 1)

GetScheme(raw) ==
    LET p == SchemeEnd(raw, 1)
    IN  IF p = 0 \/ At(raw, p) # ":" THEN [err |-> FALSE, scheme |-> "", rest |-> raw]
        ELSE IF p = 1 THEN [err |-> TRUE, scheme |-> "", rest |-> ""]
        ELSE IF ~IsLetter(At(raw, 1)) THEN [err |-> FALSE, scheme |-> "", rest |-> raw]
        ELSE [err |-> FALSE, scheme |-> SubSeq(raw, 1, p - 1), rest |-> Drop(raw, p + 1)]

\* url.Parse.
UrlParse(raw) ==
    IF \E i \in 1..Len(raw) : IsCTL(At(raw, i)) THEN NoURL
    ELSE
    LET gs     == GetScheme(raw)
        scheme == ToLower(gs.scheme)
        force  == HasSuffix(gs.rest, "?") /\ Count(gs.rest, "?") = 1
        rest   == IF force THEN SubSeq(gs.rest, 1, Len(gs.rest) - 1)
                  ELSE SplitFirst(gs.rest, "?")
        query  == IF force THEN "" ELSE CutAfter(gs.rest, "?")
    IN  IF gs.err THEN NoURL
        ELSE IF ~HasPrefix(rest, "/") /\ scheme # ""
            THEN [err |-> FALSE, Scheme |-> scheme, Opaque |-> rest, Host |-> "",
                  Path |-> "", RawQuery |-> query, ForceQuery |-> force]
        ELSE IF ~HasPrefix(rest, "/") /\ Contains(SplitFirst(rest, "/"), ":")
            THEN NoURL
        ELSE IF HasPrefix(rest, "//") /\ (scheme # "" \/ ~HasPrefix(rest, "///"))
            THEN LET authority == Drop(rest, 3)
                     i         == Index(authority, "/")
                 IN  [err |-> FALSE, Scheme |-> scheme, Opaque |-> "",
                      Host |-> IF i = 0 THEN authority ELSE SubSeq(authority, 1, i - 1),
                      Path |-> IF i = 0 THEN "" ELSE Drop(authority, i),
                      RawQuery |-> query, ForceQuery |-> force]
        ELSE [err |-> FALSE, Scheme |-> scheme, Opaque |-> "", Host |-> "",
              Path |-> rest, RawQuery |-> query, ForceQuery |-> force]

\* The cause url.Parse names when it fails.
UrlParseReason(raw) ==
    IF \E i \in 1..Len(raw) : IsCTL(At(raw, i))
        THEN "net/url: invalid control character in URL"
    ELSE IF GetScheme(raw).err THEN "missing protocol scheme"
    ELSE "first path segment in URL cannot contain colon"

\* strconv.Quote, for the characters of this model.
Quote(str) ==
    "\"" \o ReplaceAll(ReplaceAll(str, "\n", "\\n"), "\t", "\\t") \o "\""

\* (*URL).String.
UrlString(u) ==
    (IF u.Scheme # "" THEN u.Scheme \o ":" ELSE "")
    \o (IF u.Opaque # "" THEN u.Opaque
        ELSE (IF (u.Scheme # "" \/ u.Host # "") /\ (u.Host # "" \/ u.Path # "")
                 THEN "//" \o u.Host ELSE "")
             \o (IF u.Path # "" /\ ~HasPrefix(u.Path, "/") /\ u.Host # "" THEN "/" ELSE "")
             \o u.Path)
    \o (IF u.ForceQuery \/ u.RawQuery # "" THEN "?" \o u.RawQuery ELSE "")

\* (*URL).ResolveReference, as (*Response).Location uses it: ref resolved
\* against the URL of the request that produced the response.
ResolveReference(base, ref) ==
    IF ref.Scheme # "" THEN ref
    ELSE IF ref.Host # "" THEN [ref EXCEPT !.Scheme = base.Scheme]
    ELSE IF ref.Path = "" /\ ~ref.ForceQuery /\ ref.RawQuery = ""
        THEN base
    ELSE IF HasPrefix(ref.Path, "/")
        THEN [ref EXCEPT !.Scheme = base.Scheme, !.Host = base.Host]
    ELSE [ref EXCEPT !.Scheme = base.Scheme, !.Host = base.Host,
                     !.Path = SubSeq(base.Path, 1, LastIndex(base.Path, "/")) \o ref.Path]

\* url.ParseQuery: the keys with their values in order of appearance.  No
\* query of this model carries a '%' or '+' escape or a ';'.
RECURSIVE ValuesOf(_, _)
ValuesOf(pairs, key) ==
    IF Len(pairs) = 0 THEN <<>>
    ELSE (IF SplitFirst(pairs[1], "=") = key THEN <<CutAfter(pairs[1], "=")>> ELSE <<>>)
         \o ValuesOf(Tail(pairs), key)

ParseQuery(q) ==
    LET all   == Split(q, "&")
        pairs == SelectSeq(all, LAMBDA p : p # "")
        keys  == {SplitFirst(pairs[i], "=") : i \in 1..Len(pairs)}
    IN  [k \in keys |-> ValuesOf(pairs, k)]

(***************************************************************************)
(* Errors: nil, a *StatusError (Message, Code), or any other error.        *)
(***************************************************************************)
Nil == [kind |-> "nil", Message |-> "", Code |-> 0]

NewStatusError(message, code) == [kind |-> "StatusError", Message |-> message, Code |-> code]

ErrorsNew(message) == [kind |-> "error", Message |-> message, Code |-> 0]

\* err.Error().
ErrorText(err) ==
    IF err.kind = "StatusError" THEN err.Message \o " (" \o Itoa(err.Code) \o ")"
    ELSE err.Message

(***************************************************************************)
(* serveHTTP, lines 176-184: the prefix as every request normalises it.    *)
(***************************************************************************)
NormalisePrefix(prefix) ==
    LET p1 == IF prefix = "" THEN "/" ELSE prefix
        p2 == IF ~HasPrefix(p1, "/") THEN "/" \o p1 ELSE p1
    IN  IF ~HasSuffix(p2, "/") THEN p2 \o "/" ELSE p2

(***************************************************************************)
(* ComputeForwardUrl                                                       *)
(***************************************************************************)
\* incomingRequestURL with a "://" found in its first 10 characters cut off.
StripScheme(url) ==
    LET idx == Index(url, "://")
    IN  IF idx # 0 /\ idx - 1 < 10 THEN Drop(url, idx + 3) ELSE url

IsSegChar(c) == c # "/" /\ c # "?"

\* The first place at or after i where prefix is followed by a character
\* other than '/' and '?'; 0 if none.
RECURSIVE MatchStart(_, _, _)
MatchStart(prefix, url, i) ==
    IF i + Len(prefix) > Len(url) THEN 0
    ELSE IF HasAt(url, prefix, i) /\ IsSegChar(At(url, i + Len(prefix))) THEN i
    ELSE MatchStart(prefix, url, i + 1)

\* The end of the run of characters other than '/' and '?' that holds i.
RECURSIVE SegEnd(_, _)
SegEnd(url, i) ==
    IF i + 1 <= Len(url) /\ IsSegChar(At(url, i + 1)) THEN SegEnd(url, i + 1) ELSE i

\* re.FindStringSubmatch for "(" + prefix + ")([^/\?]+)([/\?]?.*)?", the prefix
\* holding no regexp metacharacter: the leftmost place where the prefix is
\* followed by at least one character other than '/' and '?'.
FindStringSubmatch(prefix, url) ==
    LET i == MatchStart(prefix, url, 1)
    IN  IF i = 0 THEN [found |-> FALSE, seg |-> "", rest |-> ""]
        ELSE LET e == SegEnd(url, i + Len(prefix))
             IN  [found |-> TRUE, seg |-> SubSeq(url, i + Len(prefix), e),
                  rest |-> Drop(url, e + 1)]

\* '%2B' to '+', '%2F' to '/' and '%3D' to '='.
Unsubstitute(seg) ==
    ReplaceAll(ReplaceAll(ReplaceAll(seg, "%2B", "+"), "%2F", "/"), "%3D", "=")

\* [err, url]: the forward URL, or the error returned in its place.
ComputeForwardUrl(prefix, url) ==
    LET submatch == FindStringSubmatch(prefix, StripScheme(url))
    IN  IF submatch.found /\ submatch.seg # ""
        THEN LET dec == DecodeString(Unsubstitute(submatch.seg))
             IN  IF dec.err
                 THEN [err |-> ErrorsNew("illegal base64 data at input byte " \o Itoa(dec.off)),
                       url |-> NoURL]
                 ELSE LET raw == dec.out \o submatch.rest
                          u   == UrlParse(raw)
                      IN  IF u.err
                          THEN [err |-> ErrorsNew("parse " \o Quote(raw) \o ": " \o UrlParseReason(raw)),
                                url |-> NoURL]
                          ELSE [err |-> Nil, url |-> u]
        ELSE [err |-> ErrorsNew("Prefix " \o prefix \o " not found in request"),
              url |-> NoURL]

(***************************************************************************)
(* extractInfo                                                             *)
(***************************************************************************)
GisInfo(serverURL, serverType, serviceType, serviceName) ==
    [ServerURL |-> serverURL, ServerType |-> serverType,
     ServiceType |-> serviceType, ServiceName |-> serviceName]

\* The first "/services/" of lower at or after i that some kw follows after
\* at least one character; 0 if none.
RECURSIVE ServicesStart(_, _, _)
ServicesStart(lower, kw, i) ==
    IF i > Len(lower) THEN 0
    ELSE IF HasAt(lower, "/services/", i) /\ IndexFrom(lower, kw, i + 11) # 0 THEN i
    ELSE ServicesStart(lower, kw, i + 1)

\* regexp "(?i)/services/(.+)/<server>/?" on path, server in lower case:
\* leftmost "/services/", then the longest (.+) that "/<server>" can follow.
FindServer(path, server) ==
    LET lower == ToLower(path)
        kw    == "/" \o server
        i     == ServicesStart(lower, kw, 1)
    IN  IF i = 0 THEN [found |-> FALSE, name |-> ""]
        ELSE [found |-> TRUE,
              name |-> SubSeq(path, i + 10, LastIndex(lower, kw) - 1)]

IsBodyMethod(method) == method \in {"PUT", "POST", "PATCH"}

\* Header.Get: the first value, "" when there is none.
Get(header, name) == IF Len(header[name]) = 0 THEN "" ELSE header[name][1]

\* The condition of lines 260-262: the body is read for classification.
SniffsBody(method, header) ==
    /\ IsBodyMethod(method)
    /\ \/ Contains(ToLower(Get(header, "Content-Type")), "application/x-www-form-urlencoded")
       \/ Contains(ToLower(Get(header, "Content-Type")), "multipart/form-data")

\* request.Form after request.ParseMultipartForm: the values of a
\* form-urlencoded body first, then those of the query of the inbound URL.
\* The multipart bodies of this model name no boundary and parse to nothing.
ParseMultipartForm(header, rawQuery, body) ==
    LET post  == IF Get(header, "Content-Type") = "application/x-www-form-urlencoded"
                 THEN ParseQuery(body) ELSE ParseQuery("")
        query == ParseQuery(rawQuery)
    IN  [k \in DOMAIN post \cup DOMAIN query |->
            (IF k \in DOMAIN post THEN post[k] ELSE <<>>)
            \o (IF k \in DOMAIN query THEN query[k] ELSE <<>>)]

\* One turn of the loop of lines 271-296 over request.Form.
FormStep(st, key, values) ==
    LET lowerKey == ToLower(key)
        type     == IF lowerKey = "service" /\ Len(values) > 0
                    THEN ToUpper(values[1]) ELSE st.serverType
        svc      == IF lowerKey = "service" /\ Len(values) > 0
                    THEN type ELSE st.serviceType
        named    == \/ type = "WMS" /\ lowerKey \in {"layers", "query_layers"}
                    \/ type = "WMTS" /\ lowerKey = "layer"
                    \/ type = "WFS" /\ lowerKey \in {"typenames", "typename"}
    IN  [serverType |-> type, serviceType |-> svc,
         serviceName |-> IF named THEN Join(values, ",") ELSE st.serviceName]

\* The loop over request.Form: Go ranges over a map in an unspecified order,
\* so the loop has one outcome per order of the keys.
RECURSIVE RangeForm(_, _, _)
RangeForm(form, keys, st) ==
    IF keys = {} THEN {st}
    ELSE UNION {RangeForm(form, keys \ {k}, FormStep(st, k, form[k])) : k \in keys}

\* extractInfo with the FeatureServer pattern tried before the MapServer one.
ExtractInfoFeatureFirst(forwardUrl, form) ==
    LET lowerURL == ToLower(UrlString(forwardUrl))
        arcURL   == SplitFirst(lowerURL, "/rest/services/") \o "/rest/services/"
        map      == FindServer(forwardUrl.Path, "mapserver")
        feature  == FindServer(forwardUrl.Path, "featureserver")
    IN  IF feature.found THEN {GisInfo(arcURL, "ArcGIS", "FeatureServer", feature.name)}
        ELSE IF map.found THEN {GisInfo(arcURL, "ArcGIS", "MapServer", map.name)}
        ELSE {GisInfo(SplitFirst(lowerURL, "?"), "unknown", "unknown", "")}

\* The GisInfo values extractInfo can return for a request whose Form is form.
ExtractInfo(forwardUrl, form) ==
    LET lowerURL == ToLower(UrlString(forwardUrl))
        path     == forwardUrl.Path
        arcURL   == SplitFirst(lowerURL, "/rest/services/") \o "/rest/services/"
        map      == FindServer(path, "mapserver")
        feature  == FindServer(path, "featureserver")
        image    == FindServer(path, "imageserver")
    IN  IF map.found THEN {GisInfo(arcURL, "ArcGIS", "MapServer", map.name)}
        ELSE IF feature.found THEN {GisInfo(arcURL, "ArcGIS", "FeatureServer", feature.name)}
        ELSE IF image.found THEN {GisInfo(arcURL, "ArcGIS", "ImageServer", image.name)}
        ELSE {GisInfo(SplitFirst(lowerURL, "?"), st.serverType, st.serviceType, st.serviceName) :
                st \in RangeForm(form, DOMAIN form,
                                 [serverType |-> "unknown", serviceType |-> "unknown",
                                  serviceName |-> ""])}

(***************************************************************************)
(* net/http: headers and the ResponseWriter                                *)
(***************************************************************************)
HeaderNames ==
    {"Origin", "Content-Type", "X-Tag", "Location", "X-Content-Type-Options",
     "Access-Control-Allow-Origin", "Access-Control-Allow-Credentials",
     "Access-Control-Allow-Methods"}

\* An http.Header: the values of each name, in order; none is <<>>.
NoHeader == [h \in HeaderNames |-> <<>>]

\* A copy that keeps one value of each name, as Header.Set in place of
\* Header.Add would.
SetAll(dst, src) ==
    [h \in HeaderNames |-> IF src[h] = <<>> THEN dst[h] ELSE <<src[h][Len(src[h])]>>]

\* Header.Add of every value of src, name by name (lines 316-320, 388-392).
AddAll(dst, src) == [h \in HeaderNames |-> dst[h] \o src[h]]

Set(header, name, value) == [header EXCEPT ![name] = <<value>>]

\* The ResponseWriter: Header is the map the handler edits, Status the status
\* committed to the caller (0: none yet), Sent the headers committed with it,
\* Body the bytes written, Broken whether the connection has failed.
NewWriter ==
    [Header |-> NoHeader, Status |-> 0, Sent |-> NoHeader, Body |-> "", Broken |-> FALSE]

\* ResponseWriter.WriteHeader: the first call commits status and headers.
WriteHeader(w, code) ==
    IF w.Status # 0 THEN w ELSE [w EXCEPT !.Status = code, !.Sent = w.Header]

\* ResponseWriter.Write: commits 200 when nothing is committed yet.
Write(w, data) ==
    LET w1 == WriteHeader(w, 200)
    IN  IF w.Broken THEN w1 ELSE [w1 EXCEPT !.Body = @ \o data]

\* http.Error.
HttpError(w, text, code) ==
    LET h1 == Set(w.Header, "Content-Type", "text/plain; charset=utf-8")
        h2 == Set(h1, "X-Content-Type-Options", "nosniff")
    IN  Write(WriteHeader([w EXCEPT !.Header = h2], code), text \o "\n")

(***************************************************************************)
(* The inputs                                                              *)
(***************************************************************************)
Prefixes == {"/p/", "p"}

ArcGISTarget == "http://h/rest/services/R/MapServer"
BothTarget == "http://h/rest/services/F/FeatureServer/0/MapServer"
OGCTarget == "HTTP://h/ows"

\* incomingRequest.URL.String()
URLs ==
    {"/p/" \o EncodeSegment(ArcGISTarget) \o "/",
     "/p/" \o EncodeSegment(BothTarget) \o "?service=WMS&layers=x",
     "/p/" \o EncodeSegment(OGCTarget) \o "?service=WMS&layers=roads,rivers",
     "http://x/p/" \o EncodeSegment(OGCTarget),
     "/v1/p/" \o EncodeSegment(OGCTarget),
     "/p/" \o EncodeSegment("http://h/\n"),
     "/p/aHR0!",
     "/p/",
     "/q/x"}

Methods == {"GET", "POST"}

FormType == "application/x-www-form-urlencoded"

InHeaders ==
    {NoHeader,
     [NoHeader EXCEPT !["Origin"] = <<"http://a">>, !["X-Tag"] = <<"1", "2">>],
     [NoHeader EXCEPT !["Content-Type"] = <<FormType>>],
     [NoHeader EXCEPT !["Content-Type"] = <<"multipart/form-data">>,
                      !["Origin"] = <<"http://a">>]}

InBodies == {"", "layers=l&service=wms"}

\* What a hook returns.
HookResults ==
    {Nil, NewStatusError("done", 200), NewStatusError("http://r/", 302),
     NewStatusError("no", 404), ErrorsNew("boom")}

UpStatuses == {200, 301, 302, 404}

UpHeaders ==
    {NoHeader,
     [NoHeader EXCEPT !["Location"] = <<"http://o/n">>],
     [NoHeader EXCEPT !["Location"] = <<"/n">>, !["X-Tag"] = <<"a", "b">>,
                      !["Access-Control-Allow-Origin"] = <<"http://e">>,
                      !["Access-Control-Allow-Credentials"] = <<"true">>]}

UpBodies == {"ok"}

NoRequest == [Method |-> "", URL |-> "", Header |-> NoHeader, Body |-> "", HasBody |-> FALSE]

NoResponse == [StatusCode |-> 0, Header |-> NoHeader, Body |-> "", URL |-> NoURL]

NoInfo == GisInfo("", "", "", "")

(***************************************************************************)
(* The state                                                               *)
(***************************************************************************)
VARIABLES
    Prefix,            \* gp.Prefix
    AllowCrossOrigin,  \* gp.AllowCrossOrigin
    next,              \* gp.next # nil
    beforeSendFunc,    \* gp.beforeSendFunc # nil
    afterReceiveFunc,  \* gp.afterReceiveFunc # nil
    incomingRequest,   \* Method, URL, Header, Body (what is left to read), Form
    inBody,            \* the body the caller sent
    pc,                \* where serveHTTP stands
    forwardUrl,        \* the result of ComputeForwardUrl
    ctx,               \* the values of the request context
    request,           \* the outbound request
    upstream,          \* what the upstream answered
    response,          \* the response client.Do returned
    writer,            \* the ResponseWriter of the inbound request
    returned,          \* the errors ReadAll, the hooks, client.Do and io.Copy returned
    calls,             \* how often next, the hooks and client.Do were called
    handlers,          \* the requests served concurrently, each where its handler stands
    server,            \* gp.server and gp.https: listeners, connections, Start and Stop
    inbound            \* the connection of the caller and the Done of the request context

vars ==
    <<Prefix, AllowCrossOrigin, next, beforeSendFunc, afterReceiveFunc,
      incomingRequest, inBody, pc, forwardUrl, ctx, request, upstream, response,
      writer, returned, calls, handlers, server, inbound>>

gpVars == <<AllowCrossOrigin, next, beforeSendFunc, afterReceiveFunc>>

serverVars == <<handlers, server, inbound>>

\* No request is being served concurrently.
NoHandlers == <<>>

\* The caller stays connected and nothing cancels the request.
NoInbound == [Proto |-> "HTTP/1.1", open |-> TRUE, eof |-> TRUE, Done |-> FALSE]

\* gp.server and gp.https as NewGisProxy leaves them: nothing bound, no
\* connection, Start and Stop not called.
NewServer ==
    [https |-> FALSE, listener |-> "none", bound |-> <<>>, inShutdown |-> FALSE,
     conns |-> <<>>, start |-> "new", startResult |-> "", stop |-> "idle",
     stopResult |-> "", clock |-> 0, deadline |-> 0]

(***************************************************************************)
(* writeResponseHeader, writeError                                         *)
(***************************************************************************)
AllowMethods == "GET, PUT, POST, HEAD, TRACE, DELETE, PATCH, COPY, HEAD, LINK, OPTIONS"

\* writeResponseHeader with the CORS headers added to, not set over, what the
\* header map holds.
WriteResponseHeaderAdd(w, req, header) ==
    LET h1     == AddAll(w.Header, header)
        origin == Get(req.Header, "Origin")
        Add(h, name, value) == [h EXCEPT ![name] = @ \o <<value>>]
    IN  IF ~AllowCrossOrigin THEN [w EXCEPT !.Header = h1]
        ELSE IF origin # ""
        THEN [w EXCEPT !.Header =
                Add(Add(Add(h1, "Access-Control-Allow-Origin", origin),
                        "Access-Control-Allow-Credentials", "true"),
                    "Access-Control-Allow-Methods", AllowMethods)]
        ELSE [w EXCEPT !.Header =
                Add(Add(h1, "Access-Control-Allow-Origin", "*"),
                    "Access-Control-Allow-Methods", AllowMethods)]

\* writeResponseHeader: the writer's header map afterwards.
WriteResponseHeader(w, req, header) ==
    LET h1     == AddAll(w.Header, header)
        origin == Get(req.Header, "Origin")
    IN  IF ~AllowCrossOrigin THEN [w EXCEPT !.Header = h1]
        ELSE IF origin # ""
        THEN [w EXCEPT !.Header =
                Set(Set(Set(h1, "Access-Control-Allow-Origin", origin),
                        "Access-Control-Allow-Credentials", "true"),
                    "Access-Control-Allow-Methods", AllowMethods)]
        ELSE [w EXCEPT !.Header =
                Set(Set(h1, "Access-Control-Allow-Origin", "*"),
                    "Access-Control-Allow-Methods", AllowMethods)]

\* writeError answering every error with status 500.
WriteErrorAll500(w, req, err) ==
    HttpError(WriteResponseHeader(w, req, NoHeader), ErrorText(err), 500)

\* writeError.
WriteError(w, req, err) ==
    LET w1 == WriteResponseHeader(w, req, NoHeader)
    IN  IF err.kind = "StatusError"
        THEN IF err.Code = 200 THEN Write(w1, err.Message)
             ELSE IF err.Code = 302
                 THEN WriteHeader([w1 EXCEPT !.Header = Set(w1.Header, "Location", err.Message)], 302)
             ELSE HttpError(w1, ErrorText(err), err.Code)
        ELSE HttpError(w1, ErrorText(err), 500)

(***************************************************************************)
(* serveHTTP, step by step                                                 *)
(***************************************************************************)
Init ==
    /\ Prefix \in Prefixes
    /\ AllowCrossOrigin \in BOOLEAN
    /\ next \in BOOLEAN
    /\ beforeSendFunc \in BOOLEAN
    /\ afterReceiveFunc \in BOOLEAN
    /\ inBody \in InBodies
    /\ \E m \in Methods, u \in URLs, h \in InHeaders :
         incomingRequest = [Method |-> m, URL |-> u, Header |-> h, Body |-> inBody,
                            Form |-> ParseQuery("")]
    /\ pc = "start"
    /\ forwardUrl = NoURL
    /\ ctx = [GisProxy |-> FALSE, GisInfo |-> NoInfo]
    /\ request = NoRequest
    /\ upstream = NoResponse
    /\ response = NoResponse
    /\ writer = NewWriter
    /\ returned = [ReadAll |-> Nil, beforeSend |-> Nil, Do |-> Nil, afterReceive |-> Nil,
                   Copy |-> Nil]
    /\ calls = [next |-> 0, beforeSend |-> 0, Do |-> 0, afterReceive |-> 0]
    /\ handlers = NoHandlers
    /\ server = NewServer
    /\ inbound = NoInbound

\* Route without the else of line 188: the error is written after the next
\* handler has served the request.
RouteNoElse ==
    /\ pc = "start"
    /\ Prefix' = NormalisePrefix(Prefix)
    /\ LET r == ComputeForwardUrl(Prefix', incomingRequest.URL)
       IN  IF r.err # Nil
           THEN /\ pc' = "done"
                /\ forwardUrl' = forwardUrl
                /\ calls' = [calls EXCEPT !.next = IF next THEN @ + 1 ELSE @]
                /\ writer' = WriteError(writer, incomingRequest, r.err)
           ELSE /\ pc' = "classify"
                /\ forwardUrl' = r.url
                /\ UNCHANGED <<calls, writer>>
    /\ UNCHANGED <<gpVars, serverVars, incomingRequest, inBody, ctx, request, response, upstream, returned>>

\* Lines 175-191: the prefix is normalised, the forward URL computed; on an
\* error the request goes to the next handler, or the error is written.
Route ==
    /\ pc = "start"
    /\ Prefix' = NormalisePrefix(Prefix)
    /\ LET r == ComputeForwardUrl(Prefix', incomingRequest.URL)
       IN  IF r.err # Nil
           THEN /\ pc' = "done"
                /\ forwardUrl' = forwardUrl
                /\ IF next
                   THEN calls' = [calls EXCEPT !.next = @ + 1] /\ writer' = writer
                   ELSE calls' = calls /\ writer' = WriteError(writer, incomingRequest, r.err)
           ELSE /\ pc' = "classify"
                /\ forwardUrl' = r.url
                /\ UNCHANGED <<calls, writer>>
    /\ UNCHANGED <<gpVars, serverVars, incomingRequest, inBody, ctx, request, response, upstream, returned>>

\* Is the forward URL one of the three ArcGIS kinds?
IsArcGIS(u) ==
    \/ FindServer(u.Path, "mapserver").found
    \/ FindServer(u.Path, "featureserver").found
    \/ FindServer(u.Path, "imageserver").found

\* Lines 193-196 and extractInfo: the body is read and parsed when lines
\* 260-262 ask for it, and the GisInfo is put in the context.  ioutil.ReadAll
\* ends with the whole body (k = -1), or with an error after k bytes, which
\* are then gone from request.Body while request.Form stays nil.
Classify ==
    /\ pc = "classify"
    /\ \E k \in (-1)..Min(MaxFailAt, Len(incomingRequest.Body)) :
         LET sniff == ~IsArcGIS(forwardUrl)
                      /\ SniffsBody(incomingRequest.Method, incomingRequest.Header)
             query == UrlParse(incomingRequest.URL).RawQuery
         IN  /\ ~sniff => k = -1
             /\ incomingRequest' =
                  IF sniff /\ k = -1
                  THEN [incomingRequest EXCEPT
                          !.Form = ParseMultipartForm(incomingRequest.Header, query,
                                                      incomingRequest.Body)]
                  ELSE IF sniff
                  THEN [incomingRequest EXCEPT !.Body = Drop(@, k + 1)]
                  ELSE incomingRequest
             /\ returned' = [returned EXCEPT
                               !.ReadAll = IF k = -1 THEN Nil ELSE ErrorsNew("unexpected EOF")]
    /\ \E info \in ExtractInfo(forwardUrl, incomingRequest'.Form) :
         ctx' = [GisProxy |-> TRUE, GisInfo |-> info]
    /\ pc' = "build"
    /\ UNCHANGED <<Prefix, gpVars, serverVars, inBody, forwardUrl, request, response, upstream, writer, calls>>

\* The outbound request built without a body, whatever the method.
NewRequestNoBody(method, url, body, header) ==
    [Method |-> method, URL |-> UrlString(url),
     Header |-> AddAll(NoHeader, header), Body |-> "", HasBody |-> FALSE]

\* Lines 303-320: the outbound request.
NewRequest(method, url, body, header) ==
    [Method |-> method, URL |-> UrlString(url),
     Header |-> AddAll(NoHeader, header),
     Body |-> IF IsBodyMethod(method) THEN body ELSE "",
     HasBody |-> IsBodyMethod(method)]

\* BeforeSend without the return of line 329: the request is sent although
\* the hook returned an error.
BeforeSendNoReturn ==
    /\ pc = "build"
    /\ request' = NewRequest(incomingRequest.Method, forwardUrl,
                             incomingRequest.Body, incomingRequest.Header)
    /\ \E e \in HookResults :
         /\ ~beforeSendFunc => e = Nil
         /\ returned' = [returned EXCEPT !.beforeSend = e]
         /\ calls' = [calls EXCEPT !.beforeSend = IF beforeSendFunc THEN @ + 1 ELSE @]
         /\ pc' = "send"
         /\ writer' = writer
    /\ UNCHANGED <<Prefix, gpVars, serverVars, incomingRequest, inBody, forwardUrl, ctx, response, upstream>>

\* sendRequestWithContext up to the send: the request is built and handed to
\* the pre-send hook; an error of the hook ends the request in writeError.
BeforeSend ==
    /\ pc = "build"
    /\ request' = NewRequest(incomingRequest.Method, forwardUrl,
                             incomingRequest.Body, incomingRequest.Header)
    /\ \E e \in HookResults :
         /\ ~beforeSendFunc => e = Nil
         /\ returned' = [returned EXCEPT !.beforeSend = e]
         /\ calls' = [calls EXCEPT !.beforeSend = IF beforeSendFunc THEN @ + 1 ELSE @]
         /\ IF e # Nil
            THEN pc' = "done" /\ writer' = WriteError(writer, incomingRequest, e)
            ELSE pc' = "send" /\ writer' = writer
    /\ UNCHANGED <<Prefix, gpVars, serverVars, incomingRequest, inBody, forwardUrl, ctx, response, upstream>>

\* The *url.Error client.Do returns: the method, the URL and the cause.
DoError(req, cause) ==
    ErrorsNew(At(req.Method, 1) \o ToLower(Drop(req.Method, 2)) \o " " \o Quote(req.URL)
              \o ": " \o cause)

\* The error client.Do returns when the upstream cannot be reached.
TransportError(req) == DoError(req, "dial tcp: connection refused")

\* The statuses for which the client looks for a Location to follow before it
\* asks CheckRedirect (lines 107-111), which stops it with ErrUseLastResponse.
\* A 307 or 308 without a Location is no redirect for the client.
FollowsLocation(status, location) ==
    \/ status \in {301, 302, 303}
    \/ status \in {307, 308} /\ location # ""

\* Send with a send that failed tried once more.
SendRetry ==
    /\ pc = "send"
    /\ calls' = [calls EXCEPT !.Do = @ + 1]
    /\ \/ /\ \E s \in UpStatuses, h \in UpHeaders, b \in UpBodies :
               /\ upstream' = [StatusCode |-> s, Header |-> h, Body |-> b,
                               URL |-> UrlParse(request.URL)]
               /\ response' = upstream'
          /\ pc' = "relay"
          /\ UNCHANGED <<writer, returned>>
       \/ /\ returned' = [returned EXCEPT !.Do = TransportError(request)]
          /\ IF calls.Do = 0
             THEN pc' = "send" /\ writer' = writer
             ELSE pc' = "done" /\ writer' = WriteError(writer, incomingRequest, returned'.Do)
          /\ UNCHANGED <<response, upstream>>
    /\ UNCHANGED <<Prefix, gpVars, serverVars, incomingRequest, inBody, forwardUrl, ctx, request>>

\* Line 333, gp.client.Do(request), then lines 201-204 of serveHTTP.  The
\* client returns the upstream response, whatever its status; a redirect
\* whose Location does not parse is an error.  A redirect without a Location
\* is returned as it is by the newer releases of net/http and is the error
\* "response missing Location header" for the older ones.  The third outcome
\* is a transport error.
Send ==
    /\ pc = "send"
    /\ calls' = [calls EXCEPT !.Do = @ + 1]
    /\ \/ \E s \in UpStatuses, h \in UpHeaders, b \in UpBodies :
            LET resp     == [StatusCode |-> s, Header |-> h, Body |-> b,
                             URL |-> UrlParse(request.URL)]
                location == Get(h, "Location")
                bad      == /\ FollowsLocation(s, location)
                            /\ location # ""
                            /\ UrlParse(location).err
                e        == DoError(request, "failed to parse Location header "
                                             \o Quote(location))
            IN  /\ upstream' = resp
                /\ IF bad
                   THEN /\ returned' = [returned EXCEPT !.Do = e]
                        /\ writer' = WriteError(writer, incomingRequest, e)
                        /\ pc' = "done"
                        /\ UNCHANGED response
                   ELSE /\ response' = resp
                        /\ pc' = "relay"
                        /\ UNCHANGED <<writer, returned>>
       \/ \E s \in UpStatuses, h \in UpHeaders, b \in UpBodies :
            LET e == DoError(request, Itoa(s) \o " response missing Location header")
            IN  /\ FollowsLocation(s, Get(h, "Location"))
                /\ Get(h, "Location") = ""
                /\ upstream' = [StatusCode |-> s, Header |-> h, Body |-> b,
                                URL |-> UrlParse(request.URL)]
                /\ returned' = [returned EXCEPT !.Do = e]
                /\ writer' = WriteError(writer, incomingRequest, e)
                /\ pc' = "done"
                /\ UNCHANGED response
       \/ /\ returned' = [returned EXCEPT !.Do = TransportError(request)]
          /\ writer' = WriteError(writer, incomingRequest, returned'.Do)
          /\ pc' = "done"
          /\ UNCHANGED <<response, upstream>>
    /\ UNCHANGED <<Prefix, gpVars, serverVars, incomingRequest, inBody, forwardUrl, ctx, request>>

\* writeResponse, lines 338-348: the post-receive hook.
AfterReceive ==
    /\ pc = "relay"
    /\ \E e \in HookResults :
         /\ ~afterReceiveFunc => e = Nil
         /\ returned' = [returned EXCEPT !.afterReceive = e]
         /\ calls' = [calls EXCEPT !.afterReceive = IF afterReceiveFunc THEN @ + 1 ELSE @]
         /\ IF e # Nil
            THEN pc' = "done" /\ writer' = WriteError(writer, incomingRequest, e)
            ELSE pc' = "redirect" /\ writer' = writer
    /\ UNCHANGED <<Prefix, gpVars, serverVars, incomingRequest, inBody, forwardUrl, ctx, request,
                   response, upstream>>

\* (*Response).Location: [nil, url].  nil when there is no Location header or
\* it does not parse.
Location(resp) ==
    LET lv  == Get(resp.Header, "Location")
        ref == UrlParse(lv)
    IN  IF lv = "" \/ ref.err THEN [nil |-> TRUE, url |-> NoURL]
        ELSE [nil |-> FALSE, url |-> ResolveReference(resp.URL, ref)]

\* Relay with the test for a 302 made as soon as the response is there,
\* before the post-receive hook.
RelayBeforeHook ==
    /\ pc \in {"relay", "redirect"}
    /\ IF response.StatusCode = 302 /\ Get(response.Header, "Location") # ""
       THEN /\ pc' = "done"
            /\ writer' = WriteError(writer, incomingRequest,
                            NewStatusError(Get(response.Header, "Location"), 302))
       ELSE /\ pc' = "copy"
            /\ writer' = WriteHeader(
                           WriteResponseHeader(writer, incomingRequest, response.Header),
                           response.StatusCode)
    /\ UNCHANGED <<Prefix, gpVars, serverVars, incomingRequest, inBody, forwardUrl, ctx, request,
                   response, upstream, returned, calls>>

\* writeResponse, lines 349-357: a 302 goes to writeError as a StatusError
\* (location.String() on a nil location is a nil dereference: the handler
\* panics and the server drops the connection); any other response has its
\* headers and status written.
Relay ==
    /\ pc = "redirect"
    /\ IF response.StatusCode = 302
       THEN LET location == Location(response)
            IN  IF location.nil
                THEN pc' = "panic" /\ writer' = writer
                ELSE /\ pc' = "done"
                     /\ writer' = WriteError(writer, incomingRequest,
                                             NewStatusError(UrlString(location.url), 302))
       ELSE /\ pc' = "copy"
            /\ writer' = WriteHeader(
                           WriteResponseHeader(writer, incomingRequest, response.Header),
                           response.StatusCode)
    /\ UNCHANGED <<Prefix, gpVars, serverVars, incomingRequest, inBody, forwardUrl, ctx, request,
                   response, upstream, returned, calls>>

\* writeResponse, lines 358-362: io.Copy.  It ends with the whole body
\* written, or after k bytes with an error: of the read from the upstream, or
\* of the write to the caller (whose connection is then broken).
Copy ==
    /\ pc = "copy"
    /\ \/ /\ writer' = IF response.Body = "" THEN writer ELSE Write(writer, response.Body)
          /\ returned' = returned
       \/ \E k \in 0..Min(MaxFailAt, Len(response.Body)), broken \in BOOLEAN :
            LET w1  == IF k = 0 THEN writer ELSE Write(writer, SubSeq(response.Body, 1, k))
                err == ErrorsNew(IF broken THEN "write tcp: broken pipe" ELSE "unexpected EOF")
            IN  /\ broken => k < Len(response.Body)
                /\ returned' = [returned EXCEPT !.Copy = err]
                /\ writer' = WriteError([w1 EXCEPT !.Broken = broken], incomingRequest, err)
    /\ pc' = "done"
    /\ UNCHANGED <<Prefix, gpVars, serverVars, incomingRequest, inBody, forwardUrl, ctx, request,
                   response, upstream, calls>>

Next ==
    \/ Route
    \/ Classify
    \/ BeforeSend
    \/ Send
    \/ AfterReceive
    \/ Relay
    \/ Copy

Spec == Init /\ [][Next]_vars

(***************************************************************************)
(* Requests served concurrently: one goroutine per request runs serveHTTP  *)
(* on the one GisProxy.  Each read and each write of gp.Prefix is a step   *)
(* of its own; a read that races with a write yields the value before or   *)
(* after it.                                                               *)
(***************************************************************************)
Handlers == {1, 2}

ConcurrentURLs ==
    {"/p/" \o EncodeSegment(ArcGISTarget) \o "/",
     "/p/" \o EncodeSegment(OGCTarget) \o "?service=WMS&layers=roads,rivers"}

NoContext == [GisProxy |-> FALSE, GisInfo |-> NoInfo]

\* Lines 26-32 and 35-41: the lookups a hook makes; FALSE and NoInfo are nil.
GisProxyFromContext(c) == c.GisProxy

GisInfoFromContext(c) == c.GisInfo

\* The variables of the one request of Spec, which serves none here.
requestVars ==
    <<incomingRequest, inBody, pc, forwardUrl, ctx, request, upstream, response,
      writer, returned, calls>>

NoIncoming ==
    [Method |-> "", URL |-> "", Header |-> NoHeader, Body |-> "", Form |-> ParseQuery("")]

IdleRequest ==
    /\ incomingRequest = NoIncoming
    /\ inBody = ""
    /\ pc = "idle"
    /\ forwardUrl = NoURL
    /\ ctx = NoContext
    /\ request = NoRequest
    /\ upstream = NoResponse
    /\ response = NoResponse
    /\ writer = NewWriter
    /\ returned = [ReadAll |-> Nil, beforeSend |-> Nil, Do |-> Nil, afterReceive |-> Nil,
                   Copy |-> Nil]
    /\ calls = [next |-> 0, beforeSend |-> 0, Do |-> 0, afterReceive |-> 0]

\* A GET of u at the entry of serveHTTP.
NewHandler(u) ==
    [pc |-> "l176", URL |-> u, read |-> "", forwardUrl |-> NoURL, info |-> NoInfo,
     ctx |-> NoContext, seen |-> <<>>, outcome |-> ""]

\* The hooks are those of main.go: both set, both returning nil.
InitConcurrent ==
    /\ Prefix \in Prefixes
    /\ AllowCrossOrigin = FALSE
    /\ next = FALSE
    /\ beforeSendFunc = TRUE
    /\ afterReceiveFunc = TRUE
    /\ handlers \in [Handlers -> {NewHandler(u) : u \in ConcurrentURLs}]
    /\ server = NewServer
    /\ inbound = NoInbound
    /\ IdleRequest

\* Lines 176, 179 and 182: the tests of gp.Prefix.
NormaliseTest ==
    \E h \in Handlers :
      LET at == handlers[h].pc
      IN  /\ at \in {"l176", "l179", "l182"}
          /\ handlers' = [handlers EXCEPT ![h].pc =
                CASE at = "l176" -> IF Prefix = "" THEN "l177" ELSE "l179"
                  [] at = "l179" -> IF ~HasPrefix(Prefix, "/") THEN "l180" ELSE "l182"
                  [] at = "l182" -> IF ~HasSuffix(Prefix, "/") THEN "l183" ELSE "l185"]
          /\ UNCHANGED <<Prefix, gpVars, server, inbound, requestVars>>

\* Lines 180 and 183, right-hand sides: gp.Prefix is read.
NormaliseRead ==
    \E h \in Handlers :
      /\ handlers[h].pc \in {"l180", "l183"}
      /\ handlers' = [handlers EXCEPT ![h].read = Prefix,
                                      ![h].pc = IF @ = "l180" THEN "l180w" ELSE "l183w"]
      /\ UNCHANGED <<Prefix, gpVars, server, inbound, requestVars>>

\* Lines 177, 180 and 183: gp.Prefix is written.
NormaliseWrite ==
    \E h \in Handlers :
      LET at == handlers[h].pc
      IN  /\ at \in {"l177", "l180w", "l183w"}
          /\ Prefix' = CASE at = "l177" -> "/"
                         [] at = "l180w" -> "/" \o handlers[h].read
                         [] at = "l183w" -> handlers[h].read \o "/"
          /\ handlers' = [handlers EXCEPT ![h].pc =
                CASE at = "l177" -> "l179"
                  [] at = "l180w" -> "l182"
                  [] at = "l183w" -> "l185"]
          /\ UNCHANGED <<gpVars, server, inbound, requestVars>>

\* Line 185: ComputeForwardUrl reads gp.Prefix; without a next handler an
\* error ends the request with writeError.
Decode ==
    \E h \in Handlers :
      LET r == ComputeForwardUrl(Prefix, handlers[h].URL)
      IN  /\ handlers[h].pc = "l185"
          /\ handlers' = IF r.err # Nil
                         THEN [handlers EXCEPT ![h].pc = "done",
                                               ![h].outcome = ErrorText(r.err)]
                         ELSE [handlers EXCEPT ![h].pc = "l196",
                                               ![h].forwardUrl = r.url]
          /\ UNCHANGED <<Prefix, gpVars, server, inbound, requestVars>>

\* Lines 194-196: the context of this request gets gp and a new GisInfo.
ClassifyRequest ==
    \E h \in Handlers :
      /\ handlers[h].pc = "l196"
      /\ \E info \in ExtractInfo(handlers[h].forwardUrl, ParseQuery("")) :
           handlers' = [handlers EXCEPT
                          ![h].info = info,
                          ![h].ctx = [GisProxy |-> TRUE, GisInfo |-> info],
                          ![h].pc = "l323"]
      /\ UNCHANGED <<Prefix, gpVars, server, inbound, requestVars>>

\* The context of the other request.
OtherContext(h) == handlers[CHOOSE g \in Handlers : g # h].ctx

\* request.Context() of the outbound request, built with the ctx of line 196
\* (line 307); response.Request is that request.
RequestContext(h) == handlers[h].ctx

\* Lines 323 and 340: a hook is invoked and looks its context up.
InvokeHook ==
    \E h \in Handlers :
      /\ handlers[h].pc \in {"l323", "l340"}
      /\ handlers' = [handlers EXCEPT
                        ![h].seen = Append(@, RequestContext(h)),
                        ![h].pc = IF @ = "l323" THEN "l333" ELSE "done"]
      /\ UNCHANGED <<Prefix, gpVars, server, inbound, requestVars>>

\* Line 333: the upstream answers.
SendRequest ==
    \E h \in Handlers :
      /\ handlers[h].pc = "l333"
      /\ handlers' = [handlers EXCEPT ![h].pc = "l340", ![h].outcome = "relayed"]
      /\ UNCHANGED <<Prefix, gpVars, server, inbound, requestVars>>

NextConcurrent ==
    \/ NormaliseTest
    \/ NormaliseRead
    \/ NormaliseWrite
    \/ Decode
    \/ ClassifyRequest
    \/ InvokeHook
    \/ SendRequest

SpecConcurrent == InitConcurrent /\ [][NextConcurrent]_vars

(***************************************************************************)
(* The server: UseHttps, Start and Stop, with http.Server as net/http      *)
(* documents it.  Shutdown closes the listeners and the idle connections   *)
(* and waits for the others until its context is done; it closes no        *)
(* connection that is serving a request.                                   *)
(***************************************************************************)
Conns == {1, 2}

ErrServerClosed == "http: Server closed"

InitServer ==
    /\ Prefix = "/p/"
    /\ AllowCrossOrigin = FALSE
    /\ next = FALSE
    /\ beforeSendFunc = TRUE
    /\ afterReceiveFunc = TRUE
    /\ handlers = NoHandlers
    /\ server = [NewServer EXCEPT !.conns = [c \in Conns |-> "none"]]
    /\ inbound = NoInbound
    /\ IdleRequest

\* Lines 130-134.
UseHttps ==
    /\ server.start = "new" /\ ~server.https
    /\ server' = [server EXCEPT !.https = TRUE]
    /\ UNCHANGED <<Prefix, gpVars, handlers, inbound, requestVars>>

\* Lines 147-149: ListenAndServeTLS, whose result Start drops.  It returns at
\* once when the server is shut down, when the address cannot be bound, or,
\* the address bound, when the certificate cannot be loaded (the listener is
\* closed again); otherwise it serves.
StartTLS ==
    /\ server.start = "new" /\ server.https
    /\ \/ /\ server.inShutdown
          /\ server' = [server EXCEPT !.start = "l150"]
       \/ /\ ~server.inShutdown
          /\ \E outcome \in {"bind fails", "certificate fails", "serves"} :
               server' = [server EXCEPT
                  !.bound = IF outcome = "bind fails" THEN @ ELSE Append(@, "tls"),
                  !.listener = IF outcome = "serves" THEN "tls" ELSE "none",
                  !.start = IF outcome = "serves" THEN "tls" ELSE "l150"]
    /\ UNCHANGED <<Prefix, gpVars, handlers, inbound, requestVars>>

\* Line 150: ListenAndServe, without https or after ListenAndServeTLS has
\* returned.
StartPlain ==
    /\ server.start = "l150" \/ (server.start = "new" /\ ~server.https)
    /\ \/ /\ server.inShutdown
          /\ server' = [server EXCEPT !.start = "returned",
                                      !.startResult = ErrServerClosed]
       \/ /\ ~server.inShutdown
          /\ \/ server' = [server EXCEPT
                             !.start = "returned",
                             !.startResult = "listen tcp: address already in use"]
             \/ server' = [server EXCEPT !.bound = Append(@, "plain"),
                                         !.listener = "plain",
                                         !.start = "plain"]
    /\ UNCHANGED <<Prefix, gpVars, handlers, inbound, requestVars>>

\* Serve returns: the listener was closed by Shutdown, or Accept failed.
ServeEnds ==
    /\ server.start \in {"tls", "plain"}
    /\ server' = [server EXCEPT
          !.listener = "none",
          !.start = IF @ = "tls" THEN "l150" ELSE "returned",
          !.startResult = IF server.start = "tls" THEN @
                          ELSE IF server.inShutdown THEN ErrServerClosed
                          ELSE "accept tcp: use of closed network connection"]
    /\ UNCHANGED <<Prefix, gpVars, handlers, inbound, requestVars>>

\* A connection is accepted and its first request is being served.
Accept ==
    /\ server.listener # "none"
    /\ \E c \in Conns :
         /\ server.conns[c] = "none"
         /\ server' = [server EXCEPT !.conns[c] = "active"]
    /\ UNCHANGED <<Prefix, gpVars, handlers, inbound, requestVars>>

\* serveHTTP returns: the connection is idle, or closed when the server is
\* shutting down.
RequestDone ==
    /\ \E c \in Conns :
         /\ server.conns[c] = "active"
         /\ server' = [server EXCEPT
                         !.conns[c] = IF server.inShutdown THEN "closed" ELSE "idle"]
    /\ UNCHANGED <<Prefix, gpVars, handlers, inbound, requestVars>>

\* The next request arrives on an idle connection.
NextRequest ==
    /\ \E c \in Conns :
         /\ server.conns[c] = "idle"
         /\ server' = [server EXCEPT !.conns[c] = "active"]
    /\ UNCHANGED <<Prefix, gpVars, handlers, inbound, requestVars>>

\* The connections with those that are idle closed.
CloseIdle(conns) ==
    [c \in DOMAIN conns |-> IF conns[c] = "idle" THEN "closed" ELSE conns[c]]

\* Lines 153-156: Stop(timeout) enters server.Shutdown(ctx), which closes
\* the listener and the idle connections.
StopBegins ==
    /\ server.stop = "idle"
    /\ \E timeout \in 0..MaxTimeout :
         server' = [server EXCEPT !.inShutdown = TRUE,
                                  !.listener = "none",
                                  !.conns = CloseIdle(@),
                                  !.deadline = server.clock + timeout,
                                  !.stop = "waiting"]
    /\ UNCHANGED <<Prefix, gpVars, handlers, inbound, requestVars>>

\* Shutdown polls: it returns nil once no connection serves a request.
StopPolls ==
    /\ server.stop = "waiting"
    /\ \A c \in Conns : server.conns[c] # "active"
    /\ server' = [server EXCEPT !.conns = CloseIdle(@),
                                !.stop = "returned",
                                !.stopResult = "nil"]
    /\ UNCHANGED <<Prefix, gpVars, handlers, inbound, requestVars>>

\* The context of line 154 is done while a connection still serves a
\* request: Shutdown returns ctx.Err() and Stop returns it.
StopTimesOut ==
    /\ server.stop = "waiting"
    /\ server.clock >= server.deadline
    /\ \E c \in Conns : server.conns[c] = "active"
    /\ server' = [server EXCEPT !.stop = "returned",
                                !.stopResult = "context deadline exceeded"]
    /\ UNCHANGED <<Prefix, gpVars, handlers, inbound, requestVars>>

Tick ==
    /\ server.clock < MaxClock
    /\ server' = [server EXCEPT !.clock = @ + 1]
    /\ UNCHANGED <<Prefix, gpVars, handlers, inbound, requestVars>>

NextServer ==
    \/ UseHttps
    \/ StartTLS
    \/ StartPlain
    \/ ServeEnds
    \/ Accept
    \/ RequestDone
    \/ NextRequest
    \/ StopBegins
    \/ StopPolls
    \/ StopTimesOut
    \/ Tick

SpecServer == InitServer /\ [][NextServer]_vars

(***************************************************************************)
(* One request whose caller may go away.  Lines 193-197 and 306-310 derive *)
(* the context of the outbound request from incomingRequest.Context(),     *)
(* which the server cancels when it sees the connection of the caller      *)
(* closed: for HTTP/1.1 by the read it starts on the connection once the   *)
(* body of the request has been read to its end, for HTTP/2 at once.  The  *)
(* call is pending while serveHTTP stands at the send.  The client has no  *)
(* timeout (lines 107-125), and the upstream may stay silent for ever.     *)
(***************************************************************************)
Protos == {"HTTP/1.1", "HTTP/2.0"}

CancelURLs ==
    {"/p/" \o EncodeSegment(ArcGISTarget) \o "/",
     "/p/" \o EncodeSegment(OGCTarget) \o "?service=WMS&layers=roads,rivers"}

CancelHeaders == {NoHeader, [NoHeader EXCEPT !["Content-Type"] = <<FormType>>]}

\* No next handler and no hooks.
InitCancel ==
    /\ Prefix = "/p/"
    /\ AllowCrossOrigin = FALSE
    /\ next = FALSE
    /\ beforeSendFunc = FALSE
    /\ afterReceiveFunc = FALSE
    /\ inBody \in InBodies
    /\ \E m \in Methods, u \in CancelURLs, h \in CancelHeaders :
         incomingRequest = [Method |-> m, URL |-> u, Header |-> h, Body |-> inBody,
                            Form |-> ParseQuery("")]
    /\ pc = "start"
    /\ forwardUrl = NoURL
    /\ ctx = [GisProxy |-> FALSE, GisInfo |-> NoInfo]
    /\ request = NoRequest
    /\ upstream = NoResponse
    /\ response = NoResponse
    /\ writer = NewWriter
    /\ returned = [ReadAll |-> Nil, beforeSend |-> Nil, Do |-> Nil, afterReceive |-> Nil,
                   Copy |-> Nil]
    /\ calls = [next |-> 0, beforeSend |-> 0, Do |-> 0, afterReceive |-> 0]
    /\ handlers = NoHandlers
    /\ server = NewServer
    /\ \E p \in Protos :
         inbound = [Proto |-> p, open |-> TRUE, eof |-> inBody = "", Done |-> FALSE]

\* serveHTTP is running.
Serving == pc \notin {"done", "panic"}

\* The body of the inbound request is being read to its end: by ReadAll
\* (lines 263-268), after which request.Form is set, or by the transport for
\* the outbound request that has the body (lines 306-307).
ReadsBody ==
    \/ DOMAIN incomingRequest.Form # {}
    \/ pc = "send" /\ request.HasBody

\* The body of the inbound request reaches its end.
BodyHitsEOF ==
    /\ Serving
    /\ ~inbound.eof
    /\ ReadsBody
    /\ inbound' = [inbound EXCEPT !.eof = TRUE]
    /\ UNCHANGED <<Prefix, gpVars, handlers, server, requestVars>>

\* The caller closes its connection.
Disconnect ==
    /\ Serving
    /\ inbound.open
    /\ inbound' = [inbound EXCEPT !.open = FALSE]
    /\ UNCHANGED <<Prefix, gpVars, handlers, server, requestVars>>

\* The server sees the closed connection, or a failed read of the body, and
\* cancels the context of the request.
CancelContext ==
    /\ Serving
    /\ ~inbound.Done
    /\ \/ ~inbound.open /\ (inbound.Proto = "HTTP/2.0" \/ inbound.eof)
       \/ returned.ReadAll # Nil
    /\ inbound' = [inbound EXCEPT !.Done = TRUE]
    /\ UNCHANGED <<Prefix, gpVars, handlers, server, requestVars>>

\* Line 333 with the context of the request done: client.Do returns the
\* error of the context, and lines 201-204 write it.
Abort ==
    /\ pc = "send"
    /\ inbound.Done
    /\ calls' = [calls EXCEPT !.Do = @ + 1]
    /\ returned' = [returned EXCEPT !.Do = DoError(request, "context canceled")]
    /\ writer' = WriteError(writer, incomingRequest, returned'.Do)
    /\ pc' = "done"
    /\ UNCHANGED <<Prefix, gpVars, serverVars, incomingRequest, inBody, forwardUrl, ctx, request,
                   response, upstream>>

NextCancel ==
    \/ Route
    \/ Classify
    \/ BeforeSend
    \/ Send
    \/ AfterReceive
    \/ Relay
    \/ Copy
    \/ BodyHitsEOF
    \/ Disconnect
    \/ CancelContext
    \/ Abort

\* Where serveHTTP can stand.
Positions ==
    {"start", "classify", "build", "send", "relay", "redirect", "copy", "done", "panic"}

\* serveHTTP leaves the step v it stands at.
Leaves(v) == pc = v /\ pc' \in Positions \ {v}

\* client.Do returns for a context that is done.
DoReturnsDone == pc = "send" /\ inbound.Done /\ pc' = "done"

\* The goroutine of serveHTTP runs each of its steps to its end, the
\* transport returns from the call once the context is done, and the server
\* reads its connection; the upstream need not answer and the caller need
\* not go.
SpecCancel ==
    /\ InitCancel
    /\ [][NextCancel]_vars
    /\ WF_pc(Leaves("start")) /\ WF_pc(Leaves("classify")) /\ WF_pc(Leaves("build"))
    /\ WF_pc(Leaves("relay")) /\ WF_pc(Leaves("redirect")) /\ WF_pc(Leaves("copy"))
    /\ WF_pc(DoReturnsDone)
    /\ WF_vars(BodyHitsEOF) /\ WF_vars(CancelContext)

(***************************************************************************)
(* Properties                                                              *)
(***************************************************************************)
Finished == pc \in {"done", "panic"}

NoHookError == returned.beforeSend = Nil /\ returned.afterReceive = Nil

\* The upstream answered the request.
UpstreamAnswered == upstream # NoResponse

\* client.Do returned the answer of the upstream to the proxy.
Answered == response # NoResponse

Origin == Get(incomingRequest.Header, "Origin")

\* The match of the prefix pattern on each inbound URL, for each prefix.
SubmatchOf ==
    [p \in Prefixes \cup {NormalisePrefix(q) : q \in Prefixes}, u \in URLs |->
        FindStringSubmatch(NormalisePrefix(p), StripScheme(u))]

\* The match of the prefix pattern on the inbound URL.
Submatch == SubmatchOf[Prefix, incomingRequest.URL]

\* The headers of the upstream response as the relay must show them: the
\* Access-Control-Allow-* values the CORS policy sets are not the upstream's.
Overridden(h) ==
    /\ AllowCrossOrigin
    /\ \/ h \in {"Access-Control-Allow-Origin", "Access-Control-Allow-Methods"}
       \/ h = "Access-Control-Allow-Credentials" /\ Origin # ""

RelaysStatusAndHeaders ==
    /\ writer.Status = response.StatusCode
    /\ \A h \in HeaderNames : ~Overridden(h) => writer.Sent[h] = response.Header[h]

\* C1: an upstream 302, no hook returning an error, is answered with a 302
\* whose Location is the upstream's Location header, and with no body byte.
C1_RedirectRelayed ==
    (Finished /\ UpstreamAnswered /\ upstream.StatusCode = 302 /\ NoHookError)
        => /\ writer.Status = 302
           /\ writer.Sent["Location"] = <<Get(upstream.Header, "Location")>>
           /\ writer.Body = ""

\* C2 as claimed: an upstream response other than a 302, no hook returning an
\* error, reaches the caller with its status, its headers (but for the
\* Access-Control-Allow-* values of the CORS policy) and exactly its body.
C2_RelayedVerbatim ==
    (pc = "done" /\ UpstreamAnswered /\ upstream.StatusCode # 302 /\ NoHookError)
        => /\ writer.Status = upstream.StatusCode
           /\ \A h \in HeaderNames : ~Overridden(h) => writer.Sent[h] = upstream.Header[h]
           /\ writer.Body = upstream.Body

\* C2 as amended: for a response client.Do returned to the proxy, status and
\* headers as claimed; the body is the upstream's byte for byte when the copy ends without error, and when the copy fails it
\* is a beginning of the upstream body, followed by the text of the error if
\* the connection to the caller still works.
C2_RelayedVerbatimUnlessCopyFails ==
    (pc = "done" /\ Answered /\ response.StatusCode # 302 /\ NoHookError)
        => /\ RelaysStatusAndHeaders
           /\ returned.Copy = Nil => writer.Body = response.Body
           /\ returned.Copy # Nil =>
                \E k \in 0..Len(response.Body) :
                    writer.Body \in {SubSeq(response.Body, 1, k),
                                     SubSeq(response.Body, 1, k)
                                        \o ErrorText(returned.Copy) \o "\n"}

C2_Witness ==
    /\ pc = "done" /\ NoHookError /\ AllowCrossOrigin /\ Origin = ""
    /\ response.StatusCode = 404
    /\ response.Header["X-Tag"] = <<"a", "b">>
    /\ writer.Status = 404
    /\ writer.Sent["X-Tag"] = <<"a", "b">>
    /\ writer.Body = "ok"

\* The outbound request has been built and handed to the pre-send hook: the
\* hook has let it go to the client, or has ended the request.
Built == pc = "send" \/ (pc = "done" /\ request # NoRequest /\ calls.Do = 0)

ForwardsMethodTargetHeaders ==
    /\ request.Method = incomingRequest.Method
    /\ UrlParse(request.URL) = forwardUrl
    /\ \A h \in HeaderNames : request.Header[h] = incomingRequest.Header[h]

\* C3 as claimed: whatever the method, the outbound request has the inbound
\* method, targets the forward URL, carries every inbound header value in
\* order and carries the inbound body unchanged.
C3_ForwardedVerbatim ==
    Built => ForwardsMethodTargetHeaders /\ request.Body = inBody

\* C3 as amended: method, target and headers as claimed; the outbound request
\* carries a body only for PUT, POST and PATCH, and then what classification
\* left of the inbound body: all of it unless classification's read of it
\* failed; for every other method it carries no body.
C3_ForwardedBodyForBodyMethods ==
    Built =>
        /\ ForwardsMethodTargetHeaders
        /\ IsBodyMethod(incomingRequest.Method) =>
              /\ request.HasBody
              /\ request.Body = incomingRequest.Body
              /\ returned.ReadAll = Nil => request.Body = inBody
        /\ ~IsBodyMethod(incomingRequest.Method) =>
              ~request.HasBody /\ request.Body = ""

C3_Witness ==
    /\ pc = "relay"
    /\ calls.beforeSend = 1 /\ calls.Do = 1
    /\ incomingRequest.Method = "POST"
    /\ incomingRequest.Header["X-Tag"] = <<"1", "2">>
    /\ request.Method = "POST"
    /\ request.Header["X-Tag"] = <<"1", "2">>
    /\ request.Body = "layers=l&service=wms"

\* C4: a request that does not match the prefix pattern goes to the next
\* handler exactly once when there is one, the proxy writing nothing and
\* contacting no upstream; without one the caller gets a 500 with a
\* plain-text error body.
C4_RoutingMismatch ==
    (pc # "start" /\ ~(Submatch.found /\ Submatch.seg # ""))
        => /\ pc = "done"
           /\ calls.Do = 0 /\ calls.beforeSend = 0 /\ calls.afterReceive = 0
           /\ IF next
              THEN calls.next = 1 /\ writer = NewWriter
              ELSE /\ calls.next = 0
                   /\ writer.Status = 500
                   /\ writer.Sent["Content-Type"] = <<"text/plain; charset=utf-8">>
                   /\ writer.Body = "Prefix " \o Prefix \o " not found in request\n"

C4_Witness ==
    /\ pc = "done" /\ next /\ calls.next = 1
    /\ incomingRequest.URL = "/q/x"
    /\ writer = NewWriter

\* The result of ComputeForwardUrl on each inbound URL, for each prefix.
ForwardUrlOf ==
    [p \in Prefixes \cup {NormalisePrefix(q) : q \in Prefixes}, u \in URLs |->
        ComputeForwardUrl(NormalisePrefix(p), u)]

\* The segment matches the pattern but does not decode to a URL.
DecodeFailure ==
    /\ Submatch.found /\ Submatch.seg # ""
    /\ ForwardUrlOf[Prefix, incomingRequest.URL].err # Nil

\* C5: a segment that is no base64, or decodes to no URL, is answered by the
\* proxy itself with a 500 whose body names the segment, with or without a
\* next handler.
C5_DecodeErrorAnswered ==
    (pc # "start" /\ DecodeFailure)
        => /\ calls.next = 0
           /\ writer.Status = 500
           /\ Contains(writer.Body, Submatch.seg)

\* The error of the hooks or of the send that ended the request.
Failure ==
    IF returned.beforeSend # Nil THEN returned.beforeSend
    ELSE IF returned.Do # Nil THEN returned.Do
    ELSE returned.afterReceive

\* C6: the answer to an error of a hook or of the send is decided by the
\* error alone: StatusError 302 is a 302 to the error's message, StatusError
\* 200 a 200 that is no error answer, any other StatusError its code, and any
\* other error a 500 with the error's message as plain text.
C6_ErrorMapping ==
    (pc = "done" /\ Failure # Nil) =>
        IF Failure.kind = "StatusError" /\ Failure.Code = 302
            THEN /\ writer.Status = 302
                 /\ writer.Sent["Location"] = <<Failure.Message>>
                 /\ writer.Body = ""
        ELSE IF Failure.kind = "StatusError" /\ Failure.Code = 200
            THEN /\ writer.Status = 200
                 /\ writer.Body = Failure.Message
                 /\ writer.Sent["Content-Type"] = <<>>
        ELSE IF Failure.kind = "StatusError"
            THEN writer.Status = Failure.Code
        ELSE /\ writer.Status = 500
             /\ writer.Sent["Content-Type"] = <<"text/plain; charset=utf-8">>
             /\ writer.Body = Failure.Message \o "\n"

C6_Witness ==
    /\ pc = "done"
    /\ Answered /\ response.StatusCode = 302
    /\ returned.afterReceive = NewStatusError("no", 404)
    /\ writer.Status = 404

\* C7: once the pre-send hook has returned an error, the upstream is not
\* contacted, the post-receive hook is not called, and the answer is what
\* writeError makes of that error.
C7_BeforeSendErrorStops ==
    returned.beforeSend # Nil
        => /\ pc = "done"
           /\ calls.Do = 0 /\ calls.afterReceive = 0
           /\ ~Answered
           /\ writer = WriteError(NewWriter, incomingRequest, returned.beforeSend)

C7_Witness ==
    /\ pc = "done"
    /\ calls.beforeSend = 1 /\ calls.Do = 0
    /\ returned.beforeSend = NewStatusError("done", 200)
    /\ writer.Status = 200

\* C8: with CORS on, no answer of the proxy carries both
\* Access-Control-Allow-Origin: * and Access-Control-Allow-Credentials: true.
C8_NoWildcardWithCredentials ==
    (AllowCrossOrigin /\ writer.Status # 0)
        => ~(/\ "*" \in {writer.Sent["Access-Control-Allow-Origin"][i] :
                            i \in 1..Len(writer.Sent["Access-Control-Allow-Origin"])}
             /\ "true" \in {writer.Sent["Access-Control-Allow-Credentials"][i] :
                            i \in 1..Len(writer.Sent["Access-Control-Allow-Credentials"])})

\* C9: with CORS on and an Origin o on the request, every answer of the proxy
\* carries Access-Control-Allow-Origin: o and
\* Access-Control-Allow-Credentials: true and no other value of the two.
C9_OriginEchoed ==
    (AllowCrossOrigin /\ Origin # "" /\ writer.Status # 0)
        => /\ writer.Sent["Access-Control-Allow-Origin"] = <<Origin>>
           /\ writer.Sent["Access-Control-Allow-Credentials"] = <<"true">>

C9_Witness ==
    /\ pc = "done" /\ AllowCrossOrigin /\ Origin = "http://a"
    /\ response.StatusCode = 200
    /\ response.Header["Access-Control-Allow-Origin"] = <<"http://e">>
    /\ writer.Status = 200
    /\ writer.Sent["Access-Control-Allow-Origin"] = <<"http://a">>

\* The parameters of the query of the forward URL.
TargetQuery == ParseQuery(forwardUrl.RawQuery)

\* C10: a request of any method whose forward URL is no ArcGIS path and
\* whose query holds service=S is classified with ServerType and ServiceType
\* the upper-case S, and for WMS with ServiceName the layers parameter.
C10_OGCClassified ==
    (ctx.GisProxy /\ ~IsArcGIS(forwardUrl) /\ "service" \in DOMAIN TargetQuery)
        => /\ ctx.GisInfo.ServerType = ToUpper(TargetQuery["service"][1])
           /\ ctx.GisInfo.ServiceType = ToUpper(TargetQuery["service"][1])
           /\ (ToUpper(TargetQuery["service"][1]) = "WMS" /\ "layers" \in DOMAIN TargetQuery)
                => ctx.GisInfo.ServiceName = Join(TargetQuery["layers"], ",")

\* C11: classification gives one result for one request, whatever the order
\* in which the loop of lines 271-296 visits the parameters.
C11_ClassificationDeterministic ==
    ctx.GisProxy => ExtractInfo(forwardUrl, incomingRequest.Form) = {ctx.GisInfo}

\* C12: after classification the body left for the forwarding step is the
\* inbound body, byte for byte, a failed read of it included.
C12_BodyRestored ==
    ctx.GisProxy => incomingRequest.Body = inBody

\* The path has a "/services/", then a name, then "/mapserver", in any case.
MatchesMapServer(path) ==
    LET lower == ToLower(path)
        i     == Index(lower, "/services/")
    IN  i # 0 /\ IndexFrom(lower, "/mapserver", i + 11) # 0

\* The forms a request of this model can carry.
Forms == {ParseQuery(""), ParseQuery("service=WFS&typename=t")}
            \cup {ParseQuery(b) : b \in InBodies}

\* The classification names the service the MapServer pattern finds in path:
\* ArcGIS, MapServer, and what stands between "/services/" and "/mapserver".
NamesMapServer(info, path) ==
    /\ info.ServerType = "ArcGIS"
    /\ info.ServiceType = "MapServer"
    /\ info.ServiceName # ""
    /\ Contains(ToLower(path), "/services/" \o ToLower(info.ServiceName) \o "/mapserver")

\* C13, in the state classification leaves: a forward URL whose path matches
\* the MapServer pattern is classified ArcGIS, MapServer, with the name
\* between "/services/" and "/MapServer", whatever else it matches or
\* carries; and for every ArcGIS forward URL the body and the parameters of
\* the request are not read and do not change the result.
C13_FirstMatchWins ==
    (pc = "build" /\ IsArcGIS(forwardUrl))
        => /\ \A form \in Forms : ExtractInfo(forwardUrl, form) = {ctx.GisInfo}
           /\ ctx.GisInfo.ServerType = "ArcGIS"
           /\ MatchesMapServer(forwardUrl.Path)
                => NamesMapServer(ctx.GisInfo, forwardUrl.Path)
           /\ returned.ReadAll = Nil
           /\ incomingRequest.Body = inBody
           /\ DOMAIN incomingRequest.Form = {}

C13_Witness ==
    /\ pc = "build"
    /\ incomingRequest.Method = "POST"
    /\ Get(incomingRequest.Header, "Content-Type") = FormType
    /\ inBody = "layers=l&service=wms"
    /\ forwardUrl.Path = "/rest/services/F/FeatureServer/0/MapServer"
    /\ forwardUrl.RawQuery = "service=WMS&layers=x"
    /\ ctx.GisInfo = GisInfo("http://h/rest/services/", "ArcGIS", "MapServer",
                             "F/FeatureServer/0")

\* C17 as claimed: the test for a 302 comes before the post-receive hook, so
\* the hook is not invoked for an upstream 302.
C17_RedirectCheckBeforeHook ==
    (Answered /\ response.StatusCode = 302) => calls.afterReceive = 0

\* One step of a request keeps the order decode, classify, pre-send hook,
\* send, post-receive hook, and only then a write for the response received.
OrderStep ==
    /\ forwardUrl' # forwardUrl => pc = "start"
    /\ ctx' # ctx =>
          /\ ~forwardUrl.err
          /\ calls.beforeSend = 0 /\ calls.Do = 0 /\ request = NoRequest
    /\ calls'.beforeSend > calls.beforeSend => ctx'.GisProxy /\ calls.Do = 0
    /\ calls'.Do > calls.Do =>
          /\ ctx.GisProxy
          /\ beforeSendFunc => calls.beforeSend = 1
          /\ response = NoResponse /\ calls.afterReceive = 0
    /\ calls'.afterReceive > calls.afterReceive =>
          /\ calls.Do = 1 /\ response # NoResponse
          /\ writer = NewWriter
    /\ (writer' # writer /\ response # NoResponse) =>
          (afterReceiveFunc => calls'.afterReceive = 1)

\* C17 as amended: the steps of a request come in the order decode, classify,
\* pre-send hook, send, post-receive hook, test for a 302, write of header,
\* status and body: the post-receive hook is invoked before the test for a
\* 302, for a 302 as for any other response.
C17_StepOrder == [][OrderStep]_vars

C17_Witness ==
    /\ pc = "done"
    /\ beforeSendFunc /\ calls.beforeSend = 1
    /\ calls.Do = 1
    /\ afterReceiveFunc /\ calls.afterReceive = 1 /\ returned.afterReceive = Nil
    /\ response.StatusCode = 302
    /\ writer.Status = 302 /\ writer.Sent["Location"] = <<"http://o/n">>

C20_CopyFailureOnlyLogged ==
    (pc = "done" /\ returned.Copy # Nil)
        => /\ writer.Status = response.StatusCode
           /\ \E k \in 0..Len(response.Body) : writer.Body = SubSeq(response.Body, 1, k)

\* C14: the context a hook looks up carries the GisProxy and the GisInfo
\* computed for the request of that hook, never the one of a request served
\* at the same time.
C14_HookSeesOwnContext ==
    \A h \in DOMAIN handlers :
      \A i \in 1..Len(handlers[h].seen) :
        LET c == handlers[h].seen[i]
        IN  /\ GisProxyFromContext(c)
            /\ GisInfoFromContext(c) # NoInfo
            /\ GisInfoFromContext(c) = handlers[h].info
            /\ GisInfoFromContext(c)
                  \in ExtractInfo(handlers[h].forwardUrl, ParseQuery(""))
            /\ \A g \in DOMAIN handlers :
                 handlers[g].URL # handlers[h].URL
                    => GisInfoFromContext(c) # handlers[g].info

C14_Witness ==
    /\ handlers[1].pc = "done" /\ handlers[2].pc = "done"
    /\ Len(handlers[1].seen) = 2 /\ Len(handlers[2].seen) = 2
    /\ handlers[1].info.ServerType = "ArcGIS"
    /\ handlers[2].info.ServerType = "unknown"
    /\ handlers[1].seen[2].GisInfo.ServiceName = "R"
    /\ handlers[2].seen[2].GisInfo.ServerURL = "http://h/ows"

\* C19: no step of a handler writes a field of the GisProxy.
C19_HandlersWriteNoInstanceField ==
    [][Prefix' = Prefix /\ UNCHANGED gpVars]_vars

\* C15: once Stop has returned, no connection of the server is open.
C15_NoConnectionAfterStop ==
    server.stop = "returned"
        => \A c \in DOMAIN server.conns : server.conns[c] \notin {"active", "idle"}

\* C16: Start binds one listener at most, and with https never a plaintext
\* one.
C16_OneListenerPerStart ==
    /\ Len(server.bound) <= 1
    /\ server.https => \A i \in 1..Len(server.bound) : server.bound[i] = "tls"

\* C22: every request the proxy handles itself is answered: serveHTTP runs to
\* its end, with one status committed to the caller, whatever the upstream
\* and the hooks do; it never ends in a panic, without a response.
C22_EveryRequestAnswered ==
    (Finished /\ calls.next = 0) => (pc = "done" /\ writer.Status # 0)

\* The path of the inbound URL: the URL itself, or what follows the host when
\* the URL starts with a scheme.
InboundPath(url) ==
    LET u == StripScheme(url)
        i == Index(u, "/")
    IN  IF u = url THEN url ELSE IF i = 0 THEN "" ELSE Drop(u, i)

\* The first component of the path after the prefix that leads it.
LeadingSegment(prefix, path) ==
    IF HasPrefix(path, prefix) /\ Len(path) > Len(prefix)
    THEN SubSeq(path, Len(prefix) + 1, SegEnd(path, Len(prefix)))
    ELSE ""

\* C23: a request is decoded and forwarded only when its path begins with the
\* prefix, and the segment decoded is the first component after that leading
\* prefix; a prefix further down the path makes no proxy request.
C23_PrefixLeadsPath ==
    (pc # "start" /\ forwardUrl # NoURL)
        => /\ HasPrefix(InboundPath(incomingRequest.URL), Prefix)
           /\ Submatch.seg = LeadingSegment(Prefix, InboundPath(incomingRequest.URL))

\* The outbound call is pending.
Pending == pc = "send"

\* C21: when the caller goes away while the outbound call is pending, the
\* call is aborted in the end and serveHTTP returns.
C21_DisconnectEndsCall ==
    (Pending /\ ~inbound.open) ~> ~Serving

\* A pending call whose context is done is aborted and serveHTTP returns.
DoneContextEndsCall ==
    (Pending /\ inbound.Done) ~> ~Serving

====
